---- MODULE Spec2Model ----
(***************************************************************************)
(* Model of the genai-stack command line (src/genai_stack/cli.py): the     *)
(* `start` and `etl` commands, one invocation per behaviour.  The inputs   *)
(* of an invocation (command, --config_file option, contents of the        *)
(* configuration document) are drawn in Init; the collaborators imported   *)
(* by cli.py (ConfigLoader, the get_*_class registries, the component      *)
(* constructors, run_custom_model, run_etl_loader) are modelled by the set *)
(* of outcomes a call can have: a returned value or a raised exception.    *)
(***************************************************************************)
EXTENDS Integers, Sequences, FiniteSets, TLC

VARIABLES
    command,          \* the click sub-command invoked: "start" or "etl"
    cli_config_file,  \* value of the --config_file option as given
    doc,              \* contents of the configuration document on disk
    pc,               \* position inside the command's body
    config_file,      \* local `config_file`
    config_loader,    \* local `config_loader`
    vectordb_client,  \* local `vectordb_client` of start
    vectordb,         \* local `vectordb` of etl
    retriever,        \* local `retriever` of start
    model,            \* local `model` of start (after strip)
    model_class,      \* local `model_class` of start (the model instance)
    thrown,           \* exception most recently raised by a collaborator
    raised,           \* exception that left the command (None: none did)
    log,              \* records sent to `logger`
    calls             \* trace of the collaborator calls made, in order

vars == <<command, cli_config_file, doc, pc, config_file, config_loader,
          vectordb_client, vectordb, retriever, model, model_class,
          thrown, raised, log, calls>>

----------------------------------------------------------------------------
(* Bounds *)

\* longest model identifier string, in tokens
MaxLen == 3

----------------------------------------------------------------------------
(* Python values *)

\* None, where an object is expected
None == [kind |-> "None"]

\* None, where a str is expected (an omitted option, a missing section)
NoneStr == "<None>"

\* a model identifier string is a sequence of tokens; " " is whitespace
Whitespace == {" "}

Tokens == {" ", "custom", "gpt3.5", "foo"}

RECURSIVE StringsOfLen(_)
StringsOfLen(n) ==
    IF n = 0 THEN {<< >>}
    ELSE {Append(s, t) : s \in StringsOfLen(n - 1), t \in Tokens}

RECURSIVE StringsUpTo(_)
StringsUpTo(n) ==
    IF n = 0 THEN StringsOfLen(0) ELSE StringsOfLen(n) \cup StringsUpTo(n - 1)

\* str.strip(): drops leading and trailing whitespace, keeps inner whitespace
RECURSIVE lstrip(_)
lstrip(s) ==
    IF s # << >> /\ Head(s) \in Whitespace THEN lstrip(Tail(s)) ELSE s

RECURSIVE rstrip(_)
rstrip(s) ==
    IF s # << >> /\ s[Len(s)] \in Whitespace
    THEN rstrip(SubSeq(s, 1, Len(s) - 1))
    ELSE s

strip(s) == rstrip(lstrip(s))

\* a str local that has not been assigned yet
Unset == <<"<unset>">>

\* `not config_file`: None and the empty string are falsy
Falsy(f) == f \in {NoneStr, ""}

Error(type, origin) == [kind |-> "error", type |-> type, origin |-> origin]

\* exception classes a collaborator may raise: ValueError (and subclasses),
\* or any exception that is not a ValueError
RaisedTypes == {"ValueError", "RuntimeError"}

Call(fn, args) == [fn |-> fn, args |-> args]

Warning(msg, e) == [level |-> "WARNING", msg |-> msg, err |-> e]

Info(msg) == [level |-> "INFO", msg |-> msg, err |-> None]

----------------------------------------------------------------------------
(* Constants imported by cli.py *)

CUSTOM_MODEL_KEY_NAME == <<"custom">>

VECTORDB_CONFIG_KEY == "vectordb"

RETRIEVER_CONFIG_KEY == "retriever"

MODEL_CONFIG_KEY == "model"

AVAILABLE_MODEL_MAPS == {<<"gpt3.5">>}

AVAILABLE_VECTORDB_MAPS == {"chromadb"}

AVAILABLE_RETRIEVER_MAPS == {"langchain"}

DefaultConfigFile == "default_model.json"

----------------------------------------------------------------------------
(* Inputs of one invocation *)

Commands == {"start", "etl"}

ConfigFileOptions == {NoneStr, "", "stack.json"}

VectordbNames == {"chromadb", "bogusdb", NoneStr}

RetrieverNames == {"langchain", "bogus", NoneStr}

\* a document that cannot be read or parsed carries no sections
UnreadableDocument ==
    [readable |-> FALSE, vectordb |-> NoneStr, retriever |-> NoneStr,
     model_present |-> FALSE, model |-> << >>]

Documents ==
    {UnreadableDocument}
    \cup [readable : {TRUE}, vectordb : VectordbNames,
          retriever : RetrieverNames, model_present : {TRUE},
          model : StringsUpTo(MaxLen)]
    \cup [readable : {TRUE}, vectordb : VectordbNames,
          retriever : RetrieverNames, model_present : {FALSE},
          model : {<< >>}]

----------------------------------------------------------------------------
(* Collaborators: each is the set of outcomes one call can have *)

Ok(v) == [ok |-> TRUE, value |-> v, err |-> None]

Fail(e) == [ok |-> FALSE, value |-> None, err |-> e]

\* ConfigLoader(config=f): the loader, or a failure to read the document
ConfigLoader(f, d) ==
    IF d.readable
    THEN {Ok([kind |-> "ConfigLoader", config |-> f])}
    ELSE {Fail(Error("RuntimeError", "ConfigLoader"))}

\* config_loader.get_config_section_name(key): the identifier the section
\* names, None when the section is missing
get_config_section_name(d, key) ==
    CASE key = VECTORDB_CONFIG_KEY -> d.vectordb
      [] key = RETRIEVER_CONFIG_KEY -> d.retriever

\* registry lookup: an unregistered (or missing) identifier is a ValueError;
\* a registered one yields its class, unless loading the class fails
Lookup(registry, name, fn) ==
    IF name \in registry
    THEN {Ok(name), Fail(Error("RuntimeError", fn))}
    ELSE {Fail(Error("ValueError", fn))}

get_vectordb_class(name) ==
    Lookup(AVAILABLE_VECTORDB_MAPS, name, "get_vectordb_class")

get_retriever_class(name) ==
    Lookup(AVAILABLE_RETRIEVER_MAPS, name, "get_retriever_class")

get_model_class(name) ==
    Lookup(AVAILABLE_MODEL_MAPS, name, "get_model_class")

\* calling a component class: the instance, holding what it was given, or
\* any exception raised by its constructor
Construct(inst, origin) ==
    {Ok(inst)} \cup {Fail(Error(t, origin)) : t \in RaisedTypes}

VectordbInstance(cls, f) ==
    [kind |-> "vectordb", name |-> cls, config |-> f]

RetrieverInstance(cls, kw) ==
    [kind |-> "retriever", name |-> cls, config |-> kw.config,
     vectordb |-> kw.vectordb]

ModelInstance(cls, kw) ==
    [kind |-> "model", name |-> cls, config |-> kw.config,
     retriever |-> kw.retriever]

\* a blocking collaborator (run_http_server, run_custom_model,
\* run_etl_loader): it returns, or an exception leaves it
Run(origin) ==
    {Ok(None)} \cup {Fail(Error(t, origin)) : t \in RaisedTypes}

----------------------------------------------------------------------------
(* Bodies of the two try blocks: lookup, then construction.  An attempt is *)
(* the outcome together with the calls made on the way.                    *)

Attempt(res, cs) == [res |-> res, calls |-> cs]

\* get_vectordb_class(section)(config=config_file)
VectordbAttempts(d, f) ==
    LET name == get_config_section_name(d, VECTORDB_CONFIG_KEY)
        look == Call("get_vectordb_class", [name |-> name])
        make == Call("vectordb", [config |-> f])
    IN  UNION { IF l.ok
                THEN {Attempt(c, <<look, make>>) :
                        c \in Construct(VectordbInstance(l.value, f), "vectordb")}
                ELSE {Attempt(l, <<look>>)}
              : l \in get_vectordb_class(name) }

\* get_retriever_class(section)(**kw)
RetrieverAttempts(d, kw) ==
    LET name == get_config_section_name(d, RETRIEVER_CONFIG_KEY)
        look == Call("get_retriever_class", [name |-> name])
        make == Call("retriever", kw)
    IN  UNION { IF l.ok
                THEN {Attempt(c, <<look, make>>) :
                        c \in Construct(RetrieverInstance(l.value, kw), "retriever")}
                ELSE {Attempt(l, <<look>>)}
              : l \in get_retriever_class(name) }

\* get_model_class(model)(**kw)
ModelAttempts(m, kw) ==
    LET look == Call("get_model_class", [name |-> m])
        make == Call("model", kw)
    IN  UNION { IF l.ok
                THEN {Attempt(c, <<look, make>>) :
                        c \in Construct(ModelInstance(l.value, kw), "model")}
                ELSE {Attempt(l, <<look>>)}
              : l \in get_model_class(m) }

----------------------------------------------------------------------------
(* Initial state: the command has been invoked, nothing has run *)

Init ==
    /\ command \in Commands
    /\ cli_config_file \in ConfigFileOptions
    /\ doc \in Documents
    /\ pc = IF command = "start" THEN "start" ELSE "etl"
    /\ config_file = cli_config_file
    /\ config_loader = None
    /\ vectordb_client = None
    /\ vectordb = None
    /\ retriever = None
    /\ model = Unset
    /\ model_class = None
    /\ thrown = None
    /\ raised = None
    /\ log = << >>
    /\ calls = << >>

----------------------------------------------------------------------------
(* start *)

\* an exception leaves the command
Propagate(e) ==
    /\ raised' = e
    /\ pc' = "done"

\* lines 81-83: substitute a generated default for a missing config file
StartDefaultConfig ==
    /\ pc = "start"
    /\ IF Falsy(config_file)
       THEN /\ log' = Append(log, Warning("No Config file provided", None))
            /\ calls' = Append(calls, Call("create_default_model_json_file", [none |-> TRUE]))
            /\ config_file' = DefaultConfigFile
       ELSE UNCHANGED <<log, calls, config_file>>
    /\ pc' = "load"
    /\ UNCHANGED <<command, cli_config_file, doc, config_loader,
                   vectordb_client, vectordb, retriever, model, model_class,
                   thrown, raised>>

\* line 84: config_loader = ConfigLoader(config=config_file)
StartLoadConfig ==
    /\ pc = "load"
    /\ calls' = Append(calls, Call("ConfigLoader", [config |-> config_file]))
    /\ \E r \in ConfigLoader(config_file, doc) :
         IF r.ok
         THEN /\ config_loader' = r.value
              /\ pc' = "vectordb"
              /\ UNCHANGED <<thrown, raised>>
         ELSE /\ thrown' = r.err
              /\ Propagate(r.err)
              /\ UNCHANGED config_loader
    /\ UNCHANGED <<command, cli_config_file, doc, config_file,
                   vectordb_client, vectordb, retriever, model, model_class,
                   log>>

\* variant of StartVectorDBCatches: the handler is missing
StartVectorDBCatchesNothing(e) == FALSE

\* line 92: `except ValueError` of the vectordb step
StartVectorDBCatches(e) == e.type = "ValueError"

\* lines 86-94: try vectordb lookup and construction; except ValueError:
\* warn and continue with vectordb_client = None
StartVectorDB ==
    /\ pc = "vectordb"
    /\ \E a \in VectordbAttempts(doc, config_file) :
         /\ calls' = calls \o a.calls
         /\ IF a.res.ok
            THEN /\ vectordb_client' = a.res.value
                 /\ pc' = "retriever"
                 /\ UNCHANGED <<thrown, raised, log>>
            ELSE /\ thrown' = a.res.err
                 /\ IF StartVectorDBCatches(a.res.err)
                    THEN /\ log' = Append(log, Warning("Failed to Initialize VectorDB", a.res.err))
                         /\ vectordb_client' = None
                         /\ pc' = "retriever"
                         /\ UNCHANGED raised
                    ELSE /\ Propagate(a.res.err)
                         /\ UNCHANGED <<vectordb_client, log>>
    /\ UNCHANGED <<command, cli_config_file, doc, config_file, config_loader,
                   vectordb, retriever, model, model_class>>

\* variant of StartRetrieverCatches: the handler is missing
StartRetrieverCatchesNothing(e) == FALSE

\* line 102: `except ValueError` of the retriever step
StartRetrieverCatches(e) == e.type = "ValueError"

\* variant of RetrieverKwargs: the vectordb client is not forwarded
RetrieverKwargsNoVectordb == [config |-> config_file, vectordb |-> None]

\* line 101: the keyword arguments of the retriever construction
RetrieverKwargs == [config |-> config_file, vectordb |-> vectordb_client]

\* lines 96-104: try retriever lookup and construction with the vectordb
\* client; except ValueError: warn and continue with retriever = None
StartRetriever ==
    /\ pc = "retriever"
    /\ \E a \in RetrieverAttempts(doc, RetrieverKwargs) :
         /\ calls' = calls \o a.calls
         /\ IF a.res.ok
            THEN /\ retriever' = a.res.value
                 /\ pc' = "model"
                 /\ UNCHANGED <<thrown, raised, log>>
            ELSE /\ thrown' = a.res.err
                 /\ IF StartRetrieverCatches(a.res.err)
                    THEN /\ log' = Append(log, Warning("Failed to Initialize Retriever", a.res.err))
                         /\ retriever' = None
                         /\ pc' = "model"
                         /\ UNCHANGED raised
                    ELSE /\ Propagate(a.res.err)
                         /\ UNCHANGED <<retriever, log>>
    /\ UNCHANGED <<command, cli_config_file, doc, config_file, config_loader,
                   vectordb_client, vectordb, model, model_class>>

\* variant of StartReadModel: the model identifier is read before the
\* retriever step has run
StartReadModelEarly ==
    /\ pc \in {"retriever", "model"}
    /\ IF doc.model_present
       THEN /\ model' = strip(doc.model)
            /\ pc' = "dispatch"
            /\ UNCHANGED raised
       ELSE /\ Propagate(Error("AttributeError", "start"))
            /\ UNCHANGED model
    /\ UNCHANGED <<command, cli_config_file, doc, config_file, config_loader,
                   vectordb_client, vectordb, retriever, model_class,
                   thrown, log, calls>>

\* lines 106-107: read the model identifier and strip it; a missing model
\* section yields None, on which strip() raises
StartReadModel ==
    /\ pc = "model"
    /\ IF doc.model_present
       THEN /\ model' = strip(doc.model)
            /\ pc' = "dispatch"
            /\ UNCHANGED raised
       ELSE /\ Propagate(Error("AttributeError", "start"))
            /\ UNCHANGED model
    /\ UNCHANGED <<command, cli_config_file, doc, config_file, config_loader,
                   vectordb_client, vectordb, retriever, model_class,
                   thrown, log, calls>>

\* variant of CustomModelKwargs: the retriever is not forwarded
CustomModelKwargsNoRetriever ==
    [config_loader |-> config_loader, retriver |-> None,
     config_file |-> config_file]

\* lines 109-113: the keyword arguments of run_custom_model
CustomModelKwargs ==
    [config_loader |-> config_loader, retriver |-> retriever,
     config_file |-> config_file]

\* lines 108-113: the custom model: return run_custom_model(...)
StartCustomModel ==
    /\ pc = "dispatch"
    /\ model = CUSTOM_MODEL_KEY_NAME
    /\ calls' = Append(calls, Call("run_custom_model", CustomModelKwargs))
    /\ \E r \in Run("run_custom_model") :
         IF r.ok
         THEN /\ pc' = "done"
              /\ UNCHANGED <<thrown, raised>>
         ELSE /\ thrown' = r.err
              /\ Propagate(r.err)
    /\ UNCHANGED <<command, cli_config_file, doc, config_file, config_loader,
                   vectordb_client, vectordb, retriever, model, model_class,
                   log>>

\* variant of IsPrebuilt: the membership test is missing
IsPrebuiltAlways(m) == TRUE

\* line 114: `model not in AVAILABLE_MODEL_MAPS.keys()`, negated
IsPrebuilt(m) == m \in AVAILABLE_MODEL_MAPS

\* lines 114-117: not a prebuilt model: raise GenAIStackException
StartUnknownModel ==
    /\ pc = "dispatch"
    /\ model # CUSTOM_MODEL_KEY_NAME
    /\ ~IsPrebuilt(model)
    /\ Propagate(Error("GenAIStackException", "start"))
    /\ UNCHANGED <<command, cli_config_file, doc, config_file, config_loader,
                   vectordb_client, vectordb, retriever, model, model_class,
                   thrown, log, calls>>

\* line 118: the keyword arguments of the model construction
ModelKwargs == [config |-> config_file, retriever |-> retriever]

\* variant of StartBuildModel: a failure to build the model is swallowed
\* and the command goes on to start the server
StartBuildModelTolerant ==
    /\ pc = "dispatch"
    /\ model # CUSTOM_MODEL_KEY_NAME
    /\ IsPrebuilt(model)
    /\ \E a \in ModelAttempts(model, ModelKwargs) :
         /\ calls' = calls \o a.calls
         /\ IF a.res.ok
            THEN /\ model_class' = a.res.value
                 /\ pc' = "serve"
                 /\ UNCHANGED <<thrown, raised>>
            ELSE /\ thrown' = a.res.err
                 /\ pc' = "serve"
                 /\ UNCHANGED <<model_class, raised>>
    /\ UNCHANGED <<command, cli_config_file, doc, config_file, config_loader,
                   vectordb_client, vectordb, retriever, model, log>>

\* line 118: model_class = get_model_class(model)(config, retriever)
StartBuildModel ==
    /\ pc = "dispatch"
    /\ model # CUSTOM_MODEL_KEY_NAME
    /\ IsPrebuilt(model)
    /\ \E a \in ModelAttempts(model, ModelKwargs) :
         /\ calls' = calls \o a.calls
         /\ IF a.res.ok
            THEN /\ model_class' = a.res.value
                 /\ pc' = "serve"
                 /\ UNCHANGED <<thrown, raised>>
            ELSE /\ thrown' = a.res.err
                 /\ Propagate(a.res.err)
                 /\ UNCHANGED model_class
    /\ UNCHANGED <<command, cli_config_file, doc, config_file, config_loader,
                   vectordb_client, vectordb, retriever, model, log>>

\* line 119: model_class.run_http_server()
StartRunHttpServer ==
    /\ pc = "serve"
    /\ calls' = Append(calls, Call("run_http_server", [self |-> model_class]))
    /\ \E r \in Run("run_http_server") :
         IF r.ok
         THEN /\ pc' = "done"
              /\ UNCHANGED <<thrown, raised>>
         ELSE /\ thrown' = r.err
              /\ Propagate(r.err)
    /\ UNCHANGED <<command, cli_config_file, doc, config_file, config_loader,
                   vectordb_client, vectordb, retriever, model, model_class,
                   log>>

----------------------------------------------------------------------------
(* etl *)

\* line 126: config_loader = ConfigLoader(config=config_file)
EtlLoadConfig ==
    /\ pc = "etl"
    /\ calls' = Append(calls, Call("ConfigLoader", [config |-> config_file]))
    /\ \E r \in ConfigLoader(config_file, doc) :
         IF r.ok
         THEN /\ config_loader' = r.value
              /\ pc' = "etl_vectordb"
              /\ UNCHANGED <<thrown, raised>>
         ELSE /\ thrown' = r.err
              /\ Propagate(r.err)
              /\ UNCHANGED config_loader
    /\ UNCHANGED <<command, cli_config_file, doc, config_file,
                   vectordb_client, vectordb, retriever, model, model_class,
                   log>>

\* line 134: `except ValueError` of etl
EtlCatches(e) == e.type = "ValueError"

\* variant of EtlRaise: the handler raises an exception of its own
EtlRaiseReplacement(e) == Error("GenAIStackException", "etl")

\* line 145: `raise e`, the exception the handler caught
EtlRaise(e) == e

\* lines 128-145: try vectordb lookup and construction; except ValueError:
\* warn, log the default vectordb config, raise e
EtlVectorDB ==
    /\ pc = "etl_vectordb"
    /\ \E a \in VectordbAttempts(doc, config_file) :
         /\ calls' = calls \o a.calls
         /\ IF a.res.ok
            THEN /\ vectordb' = a.res.value
                 /\ pc' = "etl_run"
                 /\ UNCHANGED <<thrown, raised, log>>
            ELSE /\ thrown' = a.res.err
                 /\ IF EtlCatches(a.res.err)
                    THEN /\ log' = log \o
                              <<Warning("Failed to Initialize VectorDB", a.res.err),
                                Info("Set up a default vectordb with these configs")>>
                         /\ Propagate(EtlRaise(a.res.err))
                    ELSE /\ Propagate(a.res.err)
                         /\ UNCHANGED log
                 /\ UNCHANGED vectordb
    /\ UNCHANGED <<command, cli_config_file, doc, config_file, config_loader,
                   vectordb_client, retriever, model, model_class>>

\* line 147: run_etl_loader(config_file=config_file, vectordb=vectordb)
EtlRunLoader ==
    /\ pc = "etl_run"
    /\ calls' = Append(calls, Call("run_etl_loader",
                   [config_file |-> config_file, vectordb |-> vectordb]))
    /\ \E r \in Run("run_etl_loader") :
         IF r.ok
         THEN /\ pc' = "done"
              /\ UNCHANGED <<thrown, raised>>
         ELSE /\ thrown' = r.err
              /\ Propagate(r.err)
    /\ UNCHANGED <<command, cli_config_file, doc, config_file, config_loader,
                   vectordb_client, vectordb, retriever, model, model_class,
                   log>>

----------------------------------------------------------------------------

Next ==
    \/ StartDefaultConfig
    \/ StartLoadConfig
    \/ StartVectorDB
    \/ StartRetriever
    \/ StartReadModel
    \/ StartCustomModel
    \/ StartUnknownModel
    \/ StartBuildModel
    \/ StartRunHttpServer
    \/ EtlLoadConfig
    \/ EtlVectorDB
    \/ EtlRunLoader

Spec == Init /\ [][Next]_vars

----------------------------------------------------------------------------
(* Properties *)

\* positions in the trace at which `fn` was called
CallsOf(fn) == {i \in DOMAIN calls : calls[i].fn = fn}

CallCount(fn) == Cardinality(CallsOf(fn))

LastLog == log[Len(log)]

VectordbOrigins == {"get_vectordb_class", "vectordb"}

RetrieverOrigins == {"get_retriever_class", "retriever"}

ModelOrigins == {"get_model_class", "model"}

Unregistered(name, registry) == name \notin registry

\* C1: in start, when the vectordb section is missing or names an
\* unregistered identifier, the vectordb step does not abort: it leaves
\* vectordb_client = None, logs one warning carrying the error, raises
\* nothing, and control is at the retriever step.
C1_Step ==
    (/\ command = "start"
     /\ pc = "vectordb"
     /\ Unregistered(doc.vectordb, AVAILABLE_VECTORDB_MAPS))
    => /\ pc' = "retriever"
       /\ vectordb_client' = None
       /\ raised' = None
       /\ thrown'.type = "ValueError"
       /\ log' = Append(log, Warning("Failed to Initialize VectorDB", thrown'))

C1_VectordbDegrades == [][C1_Step]_vars

C1_Witness ==
    /\ command = "start"
    /\ pc = "retriever"
    /\ doc.vectordb = "bogusdb"
    /\ vectordb_client = None
    /\ log # << >>
    /\ LastLog.msg = "Failed to Initialize VectorDB"

\* C2: in etl, once the vectordb lookup or construction has failed the run
\* is over, the exception that leaves etl is the very exception that was
\* raised there, and run_etl_loader has not been called; every call of
\* run_etl_loader passes a constructed vectordb, never None.
C2_EtlFailsFatally ==
    command = "etl" =>
        /\ (thrown # None /\ thrown.origin \in VectordbOrigins)
           => /\ pc = "done"
              /\ raised = thrown
              /\ CallCount("run_etl_loader") = 0
        /\ \A i \in CallsOf("run_etl_loader") :
              /\ calls[i].args.vectordb # None
              /\ calls[i].args.vectordb.kind = "vectordb"

C2_Witness ==
    /\ command = "etl"
    /\ pc = "done"
    /\ raised # None
    /\ raised.type = "ValueError"
    /\ raised.origin = "vectordb"
    /\ LastLog.level = "INFO"

\* C3: in start, when the model identifier is the custom sentinel, neither
\* get_model_class nor a model constructor nor run_http_server is ever
\* called; run_custom_model is not called before the model identifier has
\* been read, and once the step that follows has run it has been called
\* exactly once, with the retriever the retriever step left (constructed or
\* None).
C3_CustomModel ==
    (/\ command = "start"
     /\ doc.model_present
     /\ strip(doc.model) = CUSTOM_MODEL_KEY_NAME)
    => /\ CallCount("get_model_class") = 0
       /\ CallCount("model") = 0
       /\ CallCount("run_http_server") = 0
       /\ model_class = None
       /\ pc # "done" => CallCount("run_custom_model") = 0
       /\ (pc = "done" /\ model # Unset)
          => /\ CallCount("run_custom_model") = 1
             /\ \A i \in CallsOf("run_custom_model") :
                   /\ i = Len(calls)
                   /\ calls[i].args.retriver = retriever
                   /\ calls[i].args.config_file = config_file
                   /\ calls[i].args.config_loader = config_loader

C3_Witness ==
    /\ command = "start"
    /\ pc = "done"
    /\ doc.model = <<" ", "custom", " ">>
    /\ retriever # None
    /\ retriever.kind = "retriever"
    /\ CallCount("run_custom_model") = 1

\* C4: in start, when the model identifier is neither the custom sentinel
\* nor a prebuilt model, no model is looked up or constructed, neither
\* run_http_server nor run_custom_model is called, and once the identifier
\* has been read the run ends with the unknown-model GenAIStackException.
C4_UnknownModel ==
    (/\ command = "start"
     /\ doc.model_present
     /\ strip(doc.model) # CUSTOM_MODEL_KEY_NAME
     /\ strip(doc.model) \notin AVAILABLE_MODEL_MAPS)
    => /\ CallCount("get_model_class") = 0
       /\ CallCount("model") = 0
       /\ CallCount("run_http_server") = 0
       /\ CallCount("run_custom_model") = 0
       /\ model_class = None
       /\ pc # "serve"
       /\ (pc = "done" /\ model # Unset)
          => raised = Error("GenAIStackException", "start")

C4_Witness ==
    /\ command = "start"
    /\ pc = "done"
    /\ doc.model = <<"gpt3.5", " ", "foo">>
    /\ model = doc.model
    /\ raised = Error("GenAIStackException", "start")

\* C5: in start, when the retriever section is missing or names an
\* unregistered identifier, the retriever step does not abort: it leaves
\* retriever = None, logs one warning carrying the error, raises nothing,
\* and control is at the model step.
C5_Step ==
    (/\ command = "start"
     /\ pc = "retriever"
     /\ Unregistered(doc.retriever, AVAILABLE_RETRIEVER_MAPS))
    => /\ pc' = "model"
       /\ retriever' = None
       /\ raised' = None
       /\ thrown'.type = "ValueError"
       /\ log' = Append(log, Warning("Failed to Initialize Retriever", thrown'))

C5_RetrieverDegrades == [][C5_Step]_vars

C5_Witness ==
    /\ command = "start"
    /\ pc = "model"
    /\ doc.retriever = NoneStr
    /\ retriever = None
    /\ log # << >>
    /\ LastLog.msg = "Failed to Initialize Retriever"

\* C6: in start, no exception raised by the vectordb step or the retriever
\* step (lookup or construction, of any class) ever leaves the command.
C6_NoStepFailureIsFatal ==
    (command = "start" /\ raised # None)
    => raised.origin \notin (VectordbOrigins \cup RetrieverOrigins)

\* C7: in start and in etl alike, when --config_file is omitted the
\* configuration is loaded from the generated default file.
C7_DefaultConfigInBoth ==
    cli_config_file = NoneStr
    => \A i \in CallsOf("ConfigLoader") :
          calls[i].args.config = DefaultConfigFile

\* C8: a start invocation moves through its stages in the fixed order
\* (default config, load, vectordb, retriever, model identifier, dispatch,
\* serve, done): every step goes to the next stage or ends the run, so no
\* stage is entered twice or retried; no collaborator is called twice; and
\* by the time the model identifier has been read both the vectordb and the
\* retriever lookup have been made, in that order.
StageRank(p) ==
    CASE p = "start" -> 0
      [] p = "load" -> 1
      [] p = "vectordb" -> 2
      [] p = "retriever" -> 3
      [] p = "model" -> 4
      [] p = "dispatch" -> 5
      [] p = "serve" -> 6
      [] p = "done" -> 7
      [] OTHER -> 8

C8_Step ==
    command = "start" =>
        /\ \/ StageRank(pc') = StageRank(pc) + 1
           \/ pc' = "done" /\ pc # "done"
        /\ \A i, j \in DOMAIN calls' :
              calls'[i].fn = calls'[j].fn => i = j
        /\ model' # Unset
           => /\ CallCount("get_vectordb_class")' = 1
              /\ CallCount("get_retriever_class")' = 1
              /\ \A i \in CallsOf("get_vectordb_class")', j \in CallsOf("get_retriever_class")' :
                    i < j

C8_FixedOrder == [][C8_Step]_vars

C8_Witness ==
    /\ command = "start"
    /\ pc = "done"
    /\ model = CUSTOM_MODEL_KEY_NAME
    /\ vectordb_client = None
    /\ retriever = None
    /\ CallCount("get_vectordb_class") = 1
    /\ CallCount("get_retriever_class") = 1
    /\ CallCount("run_custom_model") = 1

\* C9: in start, run_http_server is called at most once, on the model
\* instance that was constructed before it, and it is the last call of the
\* run; when the model lookup or construction fails the run is over with
\* that very exception, the lookup was made once, and run_http_server has
\* not been called.
C9_ServeAfterModel ==
    command = "start" =>
        /\ CallCount("run_http_server") <= 1
        /\ \A i \in CallsOf("run_http_server") :
              /\ i = Len(calls)
              /\ model_class # None
              /\ model_class.kind = "model"
              /\ calls[i].args.self = model_class
              /\ \E j \in CallsOf("model") : j < i
        /\ (thrown # None /\ thrown.origin \in ModelOrigins)
           => /\ pc = "done"
              /\ raised = thrown
              /\ CallCount("get_model_class") = 1
              /\ CallCount("run_http_server") = 0

C9_Witness ==
    /\ command = "start"
    /\ pc = "done"
    /\ raised # None
    /\ raised.origin = "model"
    /\ CallCount("run_http_server") = 0

\* C10: in start, the retriever step is entered whenever the vectordb step
\* did not raise, whether it produced a client or None; every retriever
\* construction receives exactly the vectordb_client the vectordb step
\* left, and every model construction exactly the retriever the retriever
\* step left.
C10_Forwarding ==
    command = "start" =>
        /\ \A i \in CallsOf("retriever") :
              calls[i].args.vectordb = vectordb_client
        /\ retriever # None => retriever.vectordb = vectordb_client
        /\ \A i \in CallsOf("model") :
              calls[i].args.retriever = retriever
        /\ model_class # None => model_class.retriever = retriever
        /\ (pc \in {"model", "dispatch", "serve"} \/ model # Unset)
           => CallCount("get_retriever_class") = 1
        /\ (CallCount("get_vectordb_class") = 1 /\ raised = None)
           => pc # "vectordb"

C10_Witness ==
    /\ command = "start"
    /\ model_class # None
    /\ model_class.retriever # None
    /\ model_class.retriever.kind = "retriever"
    /\ model_class.retriever.vectordb = None
    /\ doc.vectordb = "chromadb"
    /\ CallCount("vectordb") = 1

====
